---- MODULE Spec2Model ----
(***************************************************************************)
(* TaskPilot front end: the Dashboard's task collection (App.tsx), the     *)
(* TaskList status handlers with their confirmation modal (TaskList.tsx,   *)
(* ConfirmationModal.tsx), and the Dashboard's AI summary: handleAISummary *)
(* (App.tsx), taskService.getAISummary (taskService.ts) and the            *)
(* AISummaryModal that presents the result; and the authentication state   *)
(* behind the Dashboard: AuthContext.tsx, authService.ts and the request   *)
(* interceptors of the two axios instances.                                *)
(*                                                                         *)
(* Optional values (description?, dueDate?) are sequences of length 0      *)
(* (undefined or null) or 1 (the value).  Dates are natural numbers read   *)
(* from the clock `now`.  Task ids stand for the values of                 *)
(* crypto.randomUUID(): the n-th task created gets the id n; the empty     *)
(* string '' that TaskList uses for "no task" is EmptyId.                  *)
(***************************************************************************)
EXTENDS Naturals, Sequences, FiniteSets

VARIABLES
    tasks,          \* Dashboard: useState<Task[]>([])
    confirmModal,   \* TaskList: useState({isOpen, taskId, newStatus})
    now,            \* the clock new Date() reads
    last,           \* history: the handler that ran last, the branch it took,
                    \*   and the task id that was pending when it was called
    isAISummaryModalOpen,   \* Dashboard: useState(false)
    aiSummary,              \* Dashboard: useState('')
    isSummaryLoading,       \* Dashboard: useState(false)
    summaryError,           \* Dashboard: useState<string | null>(null)
    inFlight,       \* the bodies of the POST /ai/summarize-tasks requests that
                    \*   have been sent and not yet answered, oldest first
    staleCalls,     \* history: how many of the requests in flight were sent
                    \*   before the summary modal was last closed
    authState,      \* AuthProvider: useReducer(authReducer, initialState)
    localStorage,   \* window.localStorage: the keys the services read
    authCalls,      \* the apiClient requests of signup, login and refreshUser
                    \*   that have been sent and not yet answered
    taskRequest,    \* history: the last request sent through taskApi
    authMounted     \* AuthProvider's mount effect has run

summaryVars ==
    <<isAISummaryModalOpen, aiSummary, isSummaryLoading, summaryError, inFlight,
      staleCalls>>

authVars == <<authState, localStorage, authCalls, taskRequest, authMounted>>

vars == <<tasks, confirmModal, now, last, summaryVars, authVars>>

-----------------------------------------------------------------------------
(* Bounds of the model *)

MaxTasks == 2

MaxTime == 1

-----------------------------------------------------------------------------
(* Types *)

TaskStatus == {"TODO", "IN_PROGRESS", "COMPLETED", "CANCELLED"}

EmptyId == 0

None == <<>>

Some(v) == <<v>>

\* The form data AddTaskCard submits (CreateTaskData): the title is non-empty,
\* description and dueDate are optional.  The status handlers never read these
\* fields.
TaskInputs ==
    { [title |-> "call bank", description |-> Some("before noon"),
       priority |-> "high", dueDate |-> None] }

\* Every id a caller can hand to a handler: '', the ids of the tasks that can
\* exist, and so also ids that resolve to no task (yet).
TaskIds == 0 .. MaxTasks

closedModal == [isOpen |-> FALSE, taskId |-> EmptyId, newStatus |-> "TODO"]

-----------------------------------------------------------------------------
(* Helpers: Array.prototype.find / map, object spread *)

\* tasks.find(t => t.id === taskId): the index of the first match, 0 if none
Find(ts, taskId) ==
    IF \E i \in 1 .. Len(ts) : ts[i].id = taskId
    THEN CHOOSE i \in 1 .. Len(ts) :
            /\ ts[i].id = taskId
            /\ \A j \in 1 .. (i - 1) : ts[j].id # taskId
    ELSE 0

\* { ...task, ...updates }
Spread(task, updates) ==
    [f \in DOMAIN task |-> IF f \in DOMAIN updates THEN updates[f] ELSE task[f]]

\* a slip: the update is applied to every task, whatever its id
handleTaskUpdate_all(ts, taskId, updates) ==
    [i \in 1 .. Len(ts) |-> Spread(ts[i], updates)]

\* a slip: filter instead of map, the other tasks are dropped
handleTaskUpdate_dropsOthers(ts, taskId, updates) ==
    LET hit(task) == task.id = taskId
        kept == SelectSeq(ts, hit)
    IN  [i \in 1 .. Len(kept) |-> Spread(kept[i], updates)]

\* App.handleTaskUpdate:
\*   prevTasks.map(task => task.id === taskId ? {...task, ...updates} : task)
handleTaskUpdate(ts, taskId, updates) ==
    [i \in 1 .. Len(ts) |->
        IF ts[i].id = taskId THEN Spread(ts[i], updates) ELSE ts[i]]

-----------------------------------------------------------------------------
(* Initial state: useState([]) in Dashboard, useState({isOpen:false,...}) in TaskList *)

Op(name, prev) == [op |-> name, path |-> "-", prev |-> prev]

\* useState(false), useState(''), useState(false), useState(null); no request
\* has been sent
summaryInit ==
    /\ isAISummaryModalOpen = FALSE
    /\ aiSummary = Some("")
    /\ isSummaryLoading = FALSE
    /\ summaryError = None
    /\ inFlight = <<>>
    /\ staleCalls = 0

\* The accounts and the JWTs the server issues
Users == {"ada"}

Tokens == {"jwt-1", "jwt-2"}

\* `Bearer ${token}`
Bearer(token) == <<"Bearer", token>>

\* localStorage with none of the keys set
emptyStorage == [access_token |-> None, user |-> None, token |-> None]

\* localStorage as authService.login leaves it
storedSession(user, token) ==
    [access_token |-> Some(token), user |-> Some(user), token |-> None]

\* The Dashboard is rendered behind ProtectedRoute: a user is signed in, the
\* session is stored, no authentication request is in flight.
authSignedIn ==
    /\ authState = [user |-> Some("ada"), token |-> Some("jwt-1"),
                    isAuthenticated |-> TRUE, isLoading |-> FALSE]
    /\ localStorage = storedSession("ada", "jwt-1")
    /\ authCalls = <<>>
    /\ taskRequest = None
    /\ authMounted = TRUE

Init ==
    /\ tasks = <<>>
    /\ confirmModal = closedModal
    /\ now = 0
    /\ last = Op("init", EmptyId)
    /\ summaryInit
    /\ authSignedIn

-----------------------------------------------------------------------------
(* The clock behind new Date(): it never goes back *)

Tick ==
    /\ now < MaxTime
    /\ now' = now + 1
    /\ last' = Op("tick", EmptyId)
    /\ UNCHANGED <<tasks, confirmModal, summaryVars, authVars>>

-----------------------------------------------------------------------------
(* App.handleAddTask *)

\* crypto.randomUUID(): an id no task has yet
randomUUID(ts) == Len(ts) + 1

\* a slip: the task starts in progress
newTask_inProgress(ts, time, taskData) ==
    [id |-> randomUUID(ts),
     title |-> taskData.title,
     description |-> taskData.description,
     priority |-> taskData.priority,
     status |-> "IN_PROGRESS",
     createdAt |-> time,
     updatedAt |-> time,
     dueDate |-> taskData.dueDate]

newTask(ts, time, taskData) ==
    [id |-> randomUUID(ts),
     title |-> taskData.title,
     description |-> taskData.description,
     priority |-> taskData.priority,
     status |-> "TODO",
     createdAt |-> time,
     updatedAt |-> time,
     dueDate |-> taskData.dueDate]

handleAddTask(taskData) ==
    /\ Len(tasks) < MaxTasks
    /\ tasks' = Append(tasks, newTask(tasks, now, taskData))
    /\ last' = Op("handleAddTask", EmptyId)
    /\ UNCHANGED <<confirmModal, now, summaryVars, authVars>>

-----------------------------------------------------------------------------
(* TaskList.handleStatusChange *)

\* a slip: the guard of lines 69-71 is missing
statusChange_noTerminalGuard(ts, modal, time, taskId, newStatus) ==
    LET i == Find(ts, taskId) IN
    IF i = 0
    THEN [tasks |-> ts, confirmModal |-> modal, path |-> "noTask"]
    ELSE IF newStatus = "CANCELLED"
    THEN [tasks |-> ts,
          confirmModal |-> [isOpen |-> TRUE, taskId |-> taskId,
                            newStatus |-> newStatus],
          path |-> "confirm"]
    ELSE [tasks |-> handleTaskUpdate(ts, taskId,
                        [status |-> newStatus, updatedAt |-> time]),
          confirmModal |-> modal,
          path |-> "update"]

\* a slip: line 80 passes { status: newStatus } alone
statusChange_statusOnly(ts, modal, time, taskId, newStatus) ==
    LET i == Find(ts, taskId) IN
    IF i = 0
    THEN [tasks |-> ts, confirmModal |-> modal, path |-> "noTask"]
    ELSE IF ts[i].status = "CANCELLED"
    THEN [tasks |-> ts, confirmModal |-> modal, path |-> "cancelled"]
    ELSE IF newStatus = "CANCELLED"
    THEN [tasks |-> ts,
          confirmModal |-> [isOpen |-> TRUE, taskId |-> taskId,
                            newStatus |-> newStatus],
          path |-> "confirm"]
    ELSE [tasks |-> handleTaskUpdate(ts, taskId, [status |-> newStatus]),
          confirmModal |-> modal,
          path |-> "update"]

\* a slip: the confirmation step of lines 74-77 is missing, CANCELLED is
\* committed like any other status
statusChange_cancelsDirectly(ts, modal, time, taskId, newStatus) ==
    LET i == Find(ts, taskId) IN
    IF i = 0
    THEN [tasks |-> ts, confirmModal |-> modal, path |-> "noTask"]
    ELSE IF ts[i].status = "CANCELLED"
    THEN [tasks |-> ts, confirmModal |-> modal, path |-> "cancelled"]
    ELSE [tasks |-> handleTaskUpdate(ts, taskId,
                        [status |-> newStatus, updatedAt |-> time]),
          confirmModal |-> modal,
          path |-> "update"]

\* a slip: asking again for the task that is already pending closes the modal
statusChange_togglesPending(ts, modal, time, taskId, newStatus) ==
    LET i == Find(ts, taskId) IN
    IF i = 0
    THEN [tasks |-> ts, confirmModal |-> modal, path |-> "noTask"]
    ELSE IF ts[i].status = "CANCELLED"
    THEN [tasks |-> ts, confirmModal |-> modal, path |-> "cancelled"]
    ELSE IF newStatus = "CANCELLED"
    THEN [tasks |-> ts,
          confirmModal |-> [isOpen |-> ~(modal.isOpen /\ modal.taskId = taskId),
                            taskId |-> taskId, newStatus |-> newStatus],
          path |-> "confirm"]
    ELSE [tasks |-> handleTaskUpdate(ts, taskId,
                        [status |-> newStatus, updatedAt |-> time]),
          confirmModal |-> modal,
          path |-> "update"]

\* a slip: a request is ignored while the modal is open for some task
statusChange_keepsFirstPending(ts, modal, time, taskId, newStatus) ==
    LET i == Find(ts, taskId) IN
    IF i = 0
    THEN [tasks |-> ts, confirmModal |-> modal, path |-> "noTask"]
    ELSE IF ts[i].status = "CANCELLED"
    THEN [tasks |-> ts, confirmModal |-> modal, path |-> "cancelled"]
    ELSE IF newStatus = "CANCELLED"
    THEN [tasks |-> ts,
          confirmModal |-> IF modal.isOpen THEN modal
                           ELSE [isOpen |-> TRUE, taskId |-> taskId,
                                 newStatus |-> newStatus],
          path |-> "confirm"]
    ELSE [tasks |-> handleTaskUpdate(ts, taskId,
                        [status |-> newStatus, updatedAt |-> time]),
          confirmModal |-> modal,
          path |-> "update"]

\* a slip: the request to cancel is recorded before the task is looked up
statusChange_pendsUnknown(ts, modal, time, taskId, newStatus) ==
    LET i == Find(ts, taskId) IN
    IF newStatus = "CANCELLED" /\ (i = 0 \/ ts[i].status # "CANCELLED")
    THEN [tasks |-> ts,
          confirmModal |-> [isOpen |-> TRUE, taskId |-> taskId,
                            newStatus |-> newStatus],
          path |-> "confirm"]
    ELSE IF i = 0
    THEN [tasks |-> ts, confirmModal |-> modal, path |-> "noTask"]
    ELSE IF ts[i].status = "CANCELLED"
    THEN [tasks |-> ts, confirmModal |-> modal, path |-> "cancelled"]
    ELSE [tasks |-> handleTaskUpdate(ts, taskId,
                        [status |-> newStatus, updatedAt |-> time]),
          confirmModal |-> modal,
          path |-> "update"]

\* a slip: the time stamp written is the epoch, not the clock's reading
statusChange_epoch(ts, modal, time, taskId, newStatus) ==
    LET i == Find(ts, taskId) IN
    IF i = 0
    THEN [tasks |-> ts, confirmModal |-> modal, path |-> "noTask"]
    ELSE IF ts[i].status = "CANCELLED"
    THEN [tasks |-> ts, confirmModal |-> modal, path |-> "cancelled"]
    ELSE IF newStatus = "CANCELLED"
    THEN [tasks |-> ts,
          confirmModal |-> [isOpen |-> TRUE, taskId |-> taskId,
                            newStatus |-> newStatus],
          path |-> "confirm"]
    ELSE [tasks |-> handleTaskUpdate(ts, taskId,
                        [status |-> newStatus, updatedAt |-> 0]),
          confirmModal |-> modal,
          path |-> "update"]

\* The handler as a function of the state it reads: the tasks and the modal it
\* leaves, and the branch it took ("noTask": line 66, "cancelled": lines 69-71,
\* "confirm": lines 74-77, "update": line 80).
statusChange(ts, modal, time, taskId, newStatus) ==
    LET i == Find(ts, taskId) IN
    IF i = 0
    THEN [tasks |-> ts, confirmModal |-> modal, path |-> "noTask"]
    ELSE IF ts[i].status = "CANCELLED"
    THEN [tasks |-> ts, confirmModal |-> modal, path |-> "cancelled"]
    ELSE IF newStatus = "CANCELLED"
    THEN [tasks |-> ts,
          confirmModal |-> [isOpen |-> TRUE, taskId |-> taskId,
                            newStatus |-> newStatus],
          path |-> "confirm"]
    ELSE [tasks |-> handleTaskUpdate(ts, taskId,
                        [status |-> newStatus, updatedAt |-> time]),
          confirmModal |-> modal,
          path |-> "update"]

handleStatusChange(taskId, newStatus) ==
    LET r == statusChange(tasks, confirmModal, now, taskId, newStatus) IN
    /\ tasks' = r.tasks
    /\ confirmModal' = r.confirmModal
    /\ last' = [op |-> "handleStatusChange", path |-> r.path,
                prev |-> IF r.path = "confirm" THEN confirmModal.taskId
                         ELSE EmptyId]
    /\ UNCHANGED <<now, summaryVars, authVars>>

-----------------------------------------------------------------------------
(* The confirmation modal *)

\* a slip: the setConfirmModal of line 88 is missing
confirmStatusChange_keepsOpen(ts, modal, time) ==
    [tasks |-> handleTaskUpdate(ts, modal.taskId,
                    [status |-> modal.newStatus, updatedAt |-> time]),
     confirmModal |-> modal]

\* a slip: line 88 resets isOpen alone, setConfirmModal({...confirmModal, isOpen: false})
confirmStatusChange_keepsTask(ts, modal, time) ==
    [tasks |-> handleTaskUpdate(ts, modal.taskId,
                    [status |-> modal.newStatus, updatedAt |-> time]),
     confirmModal |-> [modal EXCEPT !.isOpen = FALSE]]

\* TaskList.handleConfirmStatusChange (the modal's onConfirm), as a function of
\* the state it reads
confirmStatusChange(ts, modal, time) ==
    [tasks |-> handleTaskUpdate(ts, modal.taskId,
                    [status |-> modal.newStatus, updatedAt |-> time]),
     confirmModal |-> closedModal]

\* a slip: onClose flips isOpen instead of resetting the modal
discardModal_toggles(modal) == [modal EXCEPT !.isOpen = ~modal.isOpen]

\* the modal's onClose:
\*   () => setConfirmModal({ isOpen: false, taskId: '', newStatus: 'TODO' })
discardModal(modal) == closedModal

handleConfirmStatusChange ==
    LET r == confirmStatusChange(tasks, confirmModal, now) IN
    /\ tasks' = r.tasks
    /\ confirmModal' = r.confirmModal
    /\ last' = Op("handleConfirmStatusChange", confirmModal.taskId)
    /\ UNCHANGED <<now, summaryVars, authVars>>

\* ConfirmationModal.handleConfirm: onConfirm(); onClose().  The button exists
\* only while the modal is rendered (isOpen).
handleConfirm ==
    LET r == confirmStatusChange(tasks, confirmModal, now) IN
    /\ confirmModal.isOpen
    /\ tasks' = r.tasks
    /\ confirmModal' = discardModal(r.confirmModal)
    /\ last' = Op("handleConfirm", confirmModal.taskId)
    /\ UNCHANGED <<now, summaryVars, authVars>>

onClose ==
    /\ confirmModal' = discardModal(confirmModal)
    /\ last' = Op("onClose", confirmModal.taskId)
    /\ UNCHANGED <<tasks, now, summaryVars, authVars>>

-----------------------------------------------------------------------------

Next ==
    \/ Tick
    \/ \E d \in TaskInputs : handleAddTask(d)
    \/ \E id \in TaskIds, s \in TaskStatus : handleStatusChange(id, s)
    \/ handleConfirmStatusChange
    \/ handleConfirm
    \/ onClose

Spec == Init /\ [][Next]_vars

-----------------------------------------------------------------------------
(* The AI summary: App.handleAISummary, taskService.getAISummary *)

\* the requests that may be awaiting an answer at once
MaxCalls == 2

\* Form data of tasks as the summary reads them: with and without a
\* description, with and without a due date.
SummaryTaskInputs ==
    TaskInputs \cup
    { [title |-> "file taxes", description |-> None,
       priority |-> "medium", dueDate |-> Some(1)] }

EmptyNotice ==
    "No incomplete tasks to summarize. All tasks are either completed or cancelled."

DefaultError == "Failed to generate AI summary. Please try again later."

NoActiveTasks == "No active tasks to summarize"

\* the message of the TypeError that reading .summary of null raises
TypeErrorText == "Cannot read properties of null (reading 'summary')"

\* task => task.status === 'TODO' || task.status === 'IN_PROGRESS'
isIncomplete(task) == task.status = "TODO" \/ task.status = "IN_PROGRESS"

\* a slip: tasks in progress are left out
incompleteTasks_todoOnly(ts) ==
    LET isTodo(task) == task.status = "TODO" IN SelectSeq(ts, isTodo)

\* handleAISummary: tasks.filter(...)
incompleteTasks(ts) == SelectSeq(ts, isIncomplete)

\* the button "Summarise with AI" is disabled
summariseDisabled(ts) == Len(SelectSeq(ts, isIncomplete)) = 0

\* task.description || ''
orEmpty(d) == IF d = None \/ d = Some("") THEN "" ELSE d[1]

\* a slip: the whole task is sent
taskData_wholeTask(task) == task

\* getAISummary: the record activeTasks.map builds for one task
taskData(task) ==
    [title |-> task.title,
     description |-> orEmpty(task.description),
     priority |-> task.priority,
     status |-> task.status,
     dueDate |-> task.dueDate]

\* The request body axios sends for one record (JSON.stringify): a property
\* whose value is undefined is left out, a Date becomes its time stamp.
stringify(d) ==
    LET keep == {f \in DOMAIN d : f # "dueDate" \/ d.dueDate # None} IN
    [f \in keep |-> IF f = "dueDate" THEN d[f][1] ELSE d[f]]

\* getAISummary up to its await: it throws when no task is active, and
\* otherwise posts the projected active tasks
getAISummary(ts) ==
    LET activeTasks == SelectSeq(ts, isIncomplete) IN
    IF Len(activeTasks) = 0
    THEN [throws |-> TRUE, message |-> Some(NoActiveTasks)]
    ELSE [throws |-> FALSE,
          body |-> [k \in 1 .. Len(activeTasks) |->
                        stringify(taskData(activeTasks[k]))]]

\* What the awaited POST can settle with.  It resolves with a response whose
\* data holds a summary text, an empty text, no summary property, or is null;
\* it rejects with an error that has a message or none.
Responses ==
    { [data |-> Some([summary |-> Some("Two tasks need attention.")])],
      [data |-> Some([summary |-> Some("")])],
      [data |-> Some([summary |-> None])],
      [data |-> None] }

Errors == { [message |-> Some("Network Error")], [message |-> None] }

\* error.message || 'Failed to generate AI summary. Please try again later.'
errorText(error) ==
    IF error.message = None \/ error.message = Some("")
    THEN DefaultError
    ELSE error.message[1]

\* The state of the summary as a record
SummaryState ==
    [isAISummaryModalOpen |-> isAISummaryModalOpen,
     aiSummary |-> aiSummary,
     isSummaryLoading |-> isSummaryLoading,
     summaryError |-> summaryError,
     inFlight |-> inFlight]

\* a slip: lines 63-66 are missing, the service is called for an empty list
summarize_noEmptyCheck(ts, flight) ==
    LET req == getAISummary(incompleteTasks(ts))
    IN  IF req.throws
        THEN [isAISummaryModalOpen |-> TRUE,
              aiSummary |-> Some(""),
              isSummaryLoading |-> FALSE,
              summaryError |-> Some(errorText(req)),
              inFlight |-> flight,
              path |-> "thrown"]
        ELSE [isAISummaryModalOpen |-> TRUE,
              aiSummary |-> Some(""),
              isSummaryLoading |-> TRUE,
              summaryError |-> None,
              inFlight |-> Append(flight, req.body),
              path |-> "posted"]

\* handleAISummary up to its await, as a function of the tasks it reads: the
\* state it leaves and the branch it took ("empty": lines 63-66, "thrown":
\* getAISummary threw before posting, "posted": the request is awaited).
\* The four setters of lines 52-55 and, on the branches that do not await,
\* the finally block run in one event handler and are applied together.
summarize(ts, flight) ==
    LET incomplete == incompleteTasks(ts)
        req == getAISummary(incomplete)
    IN  IF Len(incomplete) = 0
        THEN [isAISummaryModalOpen |-> TRUE,
              aiSummary |-> Some(EmptyNotice),
              isSummaryLoading |-> FALSE,
              summaryError |-> None,
              inFlight |-> flight,
              path |-> "empty"]
        ELSE IF req.throws
        THEN [isAISummaryModalOpen |-> TRUE,
              aiSummary |-> Some(""),
              isSummaryLoading |-> FALSE,
              summaryError |-> Some(errorText(req)),
              inFlight |-> flight,
              path |-> "thrown"]
        ELSE [isAISummaryModalOpen |-> TRUE,
              aiSummary |-> Some(""),
              isSummaryLoading |-> TRUE,
              summaryError |-> None,
              inFlight |-> Append(flight, req.body),
              path |-> "posted"]

\* a slip: the collection is filtered in place
handleAISummary_filtersInPlace ==
    /\ Len(inFlight) < MaxCalls
    /\ tasks' = incompleteTasks(tasks)
    /\ last' = [op |-> "handleAISummary", path |-> "posted", prev |-> EmptyId]
    /\ UNCHANGED <<confirmModal, now, summaryVars, authVars>>

\* the setters of the summary state
SetSummary(r) ==
    /\ isAISummaryModalOpen' = r.isAISummaryModalOpen
    /\ aiSummary' = r.aiSummary
    /\ isSummaryLoading' = r.isSummaryLoading
    /\ summaryError' = r.summaryError
    /\ inFlight' = r.inFlight

handleAISummary ==
    LET r == summarize(tasks, inFlight) IN
    /\ Len(inFlight) < MaxCalls
    /\ SetSummary(r)
    /\ UNCHANGED staleCalls
    /\ last' = [op |-> "handleAISummary", path |-> r.path, prev |-> EmptyId]
    /\ UNCHANGED <<tasks, confirmModal, now, authVars>>

\* the sequence without its i-th element
Without(seq, i) ==
    [k \in 1 .. (Len(seq) - 1) |-> IF k < i THEN seq[k] ELSE seq[k + 1]]

\* a slip: the loading flag is cleared in the catch block only
resolved_keepsLoading(cur, i, response) ==
    IF response.data = None
    THEN [cur EXCEPT !.summaryError = Some(TypeErrorText),
                     !.isSummaryLoading = FALSE,
                     !.inFlight = Without(cur.inFlight, i)]
    ELSE [cur EXCEPT !.aiSummary = response.data[1].summary,
                     !.inFlight = Without(cur.inFlight, i)]

\* The rest of handleAISummary once its POST, the i-th in flight, has
\* resolved: getAISummary returns response.data.summary (reading it from null
\* raises a TypeError, which the catch block stores), setAiSummary stores what
\* was returned, the finally block clears the loading flag.
resolved(cur, i, response) ==
    IF response.data = None
    THEN [cur EXCEPT !.summaryError = Some(TypeErrorText),
                     !.isSummaryLoading = FALSE,
                     !.inFlight = Without(cur.inFlight, i)]
    ELSE [cur EXCEPT !.aiSummary = response.data[1].summary,
                     !.isSummaryLoading = FALSE,
                     !.inFlight = Without(cur.inFlight, i)]

\* a slip: the catch block rethrows and the finally block is skipped
rejected_rethrows(cur, i, error) ==
    [cur EXCEPT !.inFlight = Without(cur.inFlight, i)]

\* a slip: the catch block sends the request again
rejected_retries(cur, i, error) ==
    [cur EXCEPT !.summaryError = Some(errorText(error)),
                !.inFlight = Append(Without(cur.inFlight, i), cur.inFlight[i])]

\* The rest of handleAISummary once its POST, the i-th in flight, has
\* rejected: the catch block stores the message, the finally block clears the
\* loading flag.
rejected(cur, i, error) ==
    [cur EXCEPT !.summaryError = Some(errorText(error)),
                !.isSummaryLoading = FALSE,
                !.inFlight = Without(cur.inFlight, i)]

\* the i-th request in flight is answered
postResolved(i, response) ==
    /\ i <= Len(inFlight)
    /\ SetSummary(resolved(SummaryState, i, response))
    /\ staleCalls' = IF i <= staleCalls THEN staleCalls - 1 ELSE staleCalls
    /\ last' = [op |-> "postResolved",
                path |-> IF response.data = None THEN "failure" ELSE "success",
                prev |-> EmptyId]
    /\ UNCHANGED <<tasks, confirmModal, now, authVars>>

\* the i-th request in flight fails
postRejected(i, error) ==
    /\ i <= Len(inFlight)
    /\ SetSummary(rejected(SummaryState, i, error))
    /\ staleCalls' = IF i <= staleCalls THEN staleCalls - 1 ELSE staleCalls
    /\ last' = [op |-> "postRejected", path |-> "failure", prev |-> EmptyId]
    /\ UNCHANGED <<tasks, confirmModal, now, authVars>>

\* AISummaryModal's close buttons: rendered while the modal is open, disabled
\* while isLoading; onClose={() => setIsAISummaryModalOpen(false)}
closeAISummaryModal ==
    /\ isAISummaryModalOpen
    /\ ~isSummaryLoading
    /\ isAISummaryModalOpen' = FALSE
    /\ staleCalls' = Len(inFlight)
    /\ last' = Op("closeAISummaryModal", EmptyId)
    /\ UNCHANGED <<tasks, confirmModal, now, aiSummary, isSummaryLoading,
                   summaryError, inFlight, authVars>>

\* `value &&` in JSX: the value is neither null, undefined nor ''
truthy(v) == v # None /\ v # Some("")

\* What AISummaryModal renders: nothing when closed, else the spinner, the
\* error box with its message, the summary box with its text, the "No summary
\* available" box, each present or absent.
AISummaryModal(isOpen, summary, isLoading, error) ==
    IF ~isOpen THEN [rendered |-> FALSE]
    ELSE [rendered |-> TRUE,
          spinner |-> isLoading,
          error |-> IF truthy(error) THEN error ELSE None,
          summary |-> IF ~isLoading /\ ~truthy(error) /\ truthy(summary)
                      THEN summary ELSE None,
          noSummary |-> ~isLoading /\ ~truthy(error) /\ ~truthy(summary)]

\* The task collections the summary is asked for: up to MaxTasks tasks, each
\* created from form data and taken to any status.
SummaryInitTasks ==
    UNION { { [i \in 1 .. n |->
                 Spread(newTask(<<>>, 0, c[i][1]),
                        [id |-> i, status |-> c[i][2]])] :
              c \in [1 .. n -> SummaryTaskInputs \X TaskStatus] } :
            n \in 0 .. MaxTasks }

SummaryInit ==
    /\ tasks \in SummaryInitTasks
    /\ confirmModal = closedModal
    /\ now = 0
    /\ last = Op("init", EmptyId)
    /\ summaryInit
    /\ authSignedIn

\* The summary runs on the collection it was asked for; the handlers that
\* change the collection are the steps of Next.
SummaryNext ==
    \/ handleAISummary
    \/ \E i \in 1 .. MaxCalls, response \in Responses :
            postResolved(i, response)
    \/ \E i \in 1 .. MaxCalls, error \in Errors : postRejected(i, error)
    \/ closeAISummaryModal

SummarySpec == SummaryInit /\ [][SummaryNext]_vars

\* a request in flight is answered or fails
Settle ==
    \/ \E i \in 1 .. MaxCalls, response \in Responses :
            postResolved(i, response)
    \/ \E i \in 1 .. MaxCalls, error \in Errors : postRejected(i, error)

\* The summary when every request is answered or fails in the end (the
\* transport resolves or rejects the promise handleAISummary awaits).
SummaryFairSpec == SummarySpec /\ WF_vars(Settle)

-----------------------------------------------------------------------------
(* Authentication: AuthContext.tsx (authReducer, AuthProvider),             *)
(* authService.ts (apiClient and its interceptors), taskService.ts (taskApi *)
(* and its interceptor)                                                     *)

\* the authentication requests that may be awaiting an answer at once
MaxAuthCalls == 2

initialState ==
    [user |-> None, token |-> None, isAuthenticated |-> FALSE,
     isLoading |-> TRUE]

\* AuthAction: the actions the reducer is dispatched, with payloads of the
\* declared types
AuthActions ==
    { [type |-> "AUTH_START"], [type |-> "AUTH_FAILURE"], [type |-> "LOGOUT"] }
    \cup { [type |-> "AUTH_SUCCESS", payload |-> [user |-> u, token |-> t]] :
             u \in Users, t \in Tokens }
    \cup { [type |-> "SET_LOADING", payload |-> b] : b \in BOOLEAN }

\* a slip: AUTH_FAILURE keeps the user
authReducer_failureKeepsUser(state, action) ==
    CASE action.type = "AUTH_START" -> [state EXCEPT !.isLoading = TRUE]
      [] action.type = "AUTH_SUCCESS" ->
            [state EXCEPT !.user = Some(action.payload.user),
                          !.token = Some(action.payload.token),
                          !.isAuthenticated = TRUE,
                          !.isLoading = FALSE]
      [] action.type = "AUTH_FAILURE" ->
            [state EXCEPT !.token = None,
                          !.isAuthenticated = FALSE,
                          !.isLoading = FALSE]
      [] action.type = "LOGOUT" ->
            [user |-> None, token |-> None, isAuthenticated |-> FALSE,
             isLoading |-> FALSE]
      [] action.type = "SET_LOADING" ->
            [state EXCEPT !.isLoading = action.payload]
      [] OTHER -> state

authReducer(state, action) ==
    CASE action.type = "AUTH_START" -> [state EXCEPT !.isLoading = TRUE]
      [] action.type = "AUTH_SUCCESS" ->
            [state EXCEPT !.user = Some(action.payload.user),
                          !.token = Some(action.payload.token),
                          !.isAuthenticated = TRUE,
                          !.isLoading = FALSE]
      [] action.type = "AUTH_FAILURE" ->
            [state EXCEPT !.user = None,
                          !.token = None,
                          !.isAuthenticated = FALSE,
                          !.isLoading = FALSE]
      [] action.type = "LOGOUT" ->
            [user |-> None, token |-> None, isAuthenticated |-> FALSE,
             isLoading |-> FALSE]
      [] action.type = "SET_LOADING" ->
            [state EXCEPT !.isLoading = action.payload]
      [] OTHER -> state

dispatch(action) == authState' = authReducer(authState, action)

\* apiClient's request interceptor: the Authorization header of a request,
\* from the key 'access_token'
apiClientAuthorization(storage) ==
    IF truthy(storage.access_token)
    THEN Some(Bearer(storage.access_token[1]))
    ELSE None

\* taskApi's request interceptor: the Authorization header of a request, from
\* the key 'token'
taskApiAuthorization(storage) ==
    IF truthy(storage.token) THEN Some(Bearer(storage.token[1])) ELSE None

\* authService.logout, and the response interceptor on a 401
removeSession(storage) ==
    [storage EXCEPT !.access_token = None, !.user = None]

\* AuthProvider's mount effect
initializeAuth ==
    LET token == localStorage.access_token
        user == localStorage.user
    IN  /\ ~authMounted
        /\ authMounted' = TRUE
        /\ IF truthy(token) /\ user # None
           THEN dispatch([type |-> "AUTH_SUCCESS",
                          payload |-> [user |-> user[1], token |-> token[1]]])
           ELSE dispatch([type |-> "AUTH_FAILURE"])
        /\ last' = Op("initializeAuth", EmptyId)
        /\ UNCHANGED <<tasks, confirmModal, now, summaryVars, localStorage,
                       authCalls, taskRequest>>

\* the request apiClient sends for signup, login or refreshUser
apiClientRequest(kind, storage) ==
    [kind |-> kind, Authorization |-> apiClientAuthorization(storage)]

\* AuthProvider.signup up to its await: AUTH_START, POST /auth/signup
signup ==
    /\ authMounted
    /\ Len(authCalls) < MaxAuthCalls
    /\ dispatch([type |-> "AUTH_START"])
    /\ authCalls' = Append(authCalls, apiClientRequest("signup", localStorage))
    /\ last' = Op("signup", EmptyId)
    /\ UNCHANGED <<tasks, confirmModal, now, summaryVars, localStorage,
                   taskRequest, authMounted>>

\* AuthProvider.login up to its await: AUTH_START, POST /auth/login
login ==
    /\ authMounted
    /\ Len(authCalls) < MaxAuthCalls
    /\ dispatch([type |-> "AUTH_START"])
    /\ authCalls' = Append(authCalls, apiClientRequest("login", localStorage))
    /\ last' = Op("login", EmptyId)
    /\ UNCHANGED <<tasks, confirmModal, now, summaryVars, localStorage,
                   taskRequest, authMounted>>

\* AuthProvider.refreshUser up to its await: SET_LOADING true, GET /auth/me
refreshUser ==
    /\ authMounted
    /\ Len(authCalls) < MaxAuthCalls
    /\ dispatch([type |-> "SET_LOADING", payload |-> TRUE])
    /\ authCalls' =
          Append(authCalls, apiClientRequest("refreshUser", localStorage))
    /\ last' = Op("refreshUser", EmptyId)
    /\ UNCHANGED <<tasks, confirmModal, now, summaryVars, localStorage,
                   taskRequest, authMounted>>

\* what the rest of signup / login does once the request resolved with
\* {access_token, user}: authService stores both, AUTH_SUCCESS is dispatched
signedIn(state, storage, user, token) ==
    [authState |->
        authReducer(state, [type |-> "AUTH_SUCCESS",
                            payload |-> [user |-> user, token |-> token]]),
     localStorage |->
        [storage EXCEPT !.access_token = Some(token), !.user = Some(user)],
     path |-> "success"]

\* what the rest of refreshUser does once GET /auth/me resolved with the
\* user: AUTH_SUCCESS if getToken() returns a token, nothing otherwise
refreshed(state, storage, user) ==
    IF truthy(storage.access_token)
    THEN [authState |->
            authReducer(state,
                        [type |-> "AUTH_SUCCESS",
                         payload |-> [user |-> user,
                                      token |-> storage.access_token[1]]]),
          localStorage |-> storage,
          path |-> "success"]
    ELSE [authState |-> state, localStorage |-> storage, path |-> "noToken"]

\* The i-th request is answered.  The server answers GET /auth/me only when
\* the request carried an Authorization header.
authResolved(i, user, token) ==
    /\ i <= Len(authCalls)
    /\ authCalls[i].kind = "refreshUser" => authCalls[i].Authorization # None
    /\ LET r == IF authCalls[i].kind = "refreshUser"
                THEN refreshed(authState, localStorage, user)
                ELSE signedIn(authState, localStorage, user, token)
       IN  /\ authState' = r.authState
           /\ localStorage' = r.localStorage
           /\ last' = [op |-> "authResolved", path |-> r.path,
                       prev |-> EmptyId]
    /\ authCalls' = Without(authCalls, i)
    /\ UNCHANGED <<tasks, confirmModal, now, summaryVars, taskRequest,
                   authMounted>>

\* the ways a request fails: the server answers 401, or no answer arrives
Failures == {"401", "network"}

\* The i-th request fails: on a 401 the response interceptor removes the
\* session; the service rethrows and the catch block of signup, login or
\* refreshUser dispatches AUTH_FAILURE.
authRejected(i, failure) ==
    /\ i <= Len(authCalls)
    /\ localStorage' = IF failure = "401" THEN removeSession(localStorage)
                       ELSE localStorage
    /\ dispatch([type |-> "AUTH_FAILURE"])
    /\ authCalls' = Without(authCalls, i)
    /\ last' = [op |-> "authRejected", path |-> "failure", prev |-> EmptyId]
    /\ UNCHANGED <<tasks, confirmModal, now, summaryVars, taskRequest,
                   authMounted>>

\* AuthProvider.logout
logout ==
    /\ authMounted
    /\ localStorage' = removeSession(localStorage)
    /\ dispatch([type |-> "LOGOUT"])
    /\ last' = Op("logout", EmptyId)
    /\ UNCHANGED <<tasks, confirmModal, now, summaryVars, authCalls,
                   taskRequest, authMounted>>

\* localStorage is shared by the tabs of the origin: the session is removed
\* by a logout in another tab, which dispatches nothing in this one
otherTabLogout ==
    /\ localStorage.access_token # None
    /\ localStorage' = removeSession(localStorage)
    /\ last' = Op("otherTabLogout", EmptyId)
    /\ UNCHANGED <<tasks, confirmModal, now, summaryVars, authState, authCalls,
                   taskRequest, authMounted>>

\* the methods of taskService; each sends one request through taskApi
TaskEndpoints ==
    {"getTasks", "createTask", "updateTask", "deleteTask", "getAISummary"}

taskApiRequest(endpoint) ==
    /\ authMounted
    /\ taskRequest' =
          Some([endpoint |-> endpoint,
                Authorization |-> taskApiAuthorization(localStorage)])
    /\ last' = Op("taskApiRequest", EmptyId)
    /\ UNCHANGED <<tasks, confirmModal, now, summaryVars, authState,
                   localStorage, authCalls, authMounted>>

\* The application starts with an empty localStorage or with the session a
\* previous visit stored.
AuthInit ==
    /\ tasks = <<>>
    /\ confirmModal = closedModal
    /\ now = 0
    /\ last = Op("init", EmptyId)
    /\ summaryInit
    /\ authState = initialState
    /\ localStorage \in
          {emptyStorage} \cup {storedSession(u, t) : u \in Users, t \in Tokens}
    /\ authCalls = <<>>
    /\ taskRequest = None
    /\ authMounted = FALSE

AuthNext ==
    \/ initializeAuth
    \/ signup
    \/ login
    \/ refreshUser
    \/ \E i \in 1 .. MaxAuthCalls, u \in Users, t \in Tokens :
            authResolved(i, u, t)
    \/ \E i \in 1 .. MaxAuthCalls, f \in Failures : authRejected(i, f)
    \/ logout
    \/ otherTabLogout
    \/ \E e \in TaskEndpoints : taskApiRequest(e)

AuthSpec == AuthInit /\ [][AuthNext]_vars

-----------------------------------------------------------------------------
(* Vocabulary of the claims.  The handlers return nothing; the outcome of    *)
(* a request is the branch handleStatusChange took.                          *)

Outcome(path) ==
    CASE path = "update" -> "Committed"
      [] path = "confirm" -> "PendingConfirmation"
      [] OTHER -> "Rejected"

Known(ts, id) == Find(ts, id) # 0

TaskOf(ts, id) == ts[Find(ts, id)]

\* the task ids that have a pending confirmation
PendingIds(modal) == IF modal.isOpen THEN {modal.taskId} ELSE {}

\* the known tasks that are not CANCELLED
NonTerminalIds ==
    {id \in TaskIds : Known(tasks, id) /\ TaskOf(tasks, id).status # "CANCELLED"}

CancelledIds ==
    {id \in TaskIds : Known(tasks, id) /\ TaskOf(tasks, id).status = "CANCELLED"}

\* the readings of the clock from now on
Later == now .. MaxTime

ConfirmOps == {"handleConfirm", "handleConfirmStatusChange"}

-----------------------------------------------------------------------------
\* C1: a request on a CANCELLED task, to any target (CANCELLED included), is
\* Rejected: it changes no field of any task and leaves the confirmation modal
\* as it was, so no pending confirmation is created.
C1_CancelledRequestRejected ==
    \A id \in CancelledIds, t \in TaskStatus :
        LET r == statusChange(tasks, confirmModal, now, id, t) IN
        /\ Outcome(r.path) = "Rejected"
        /\ r.tasks = tasks
        /\ r.confirmModal = confirmModal

\* handleStatusChange has just run on a CANCELLED task, later than that task's
\* cancellation
C1_Witness ==
    /\ last.op = "handleStatusChange"
    /\ last.path = "cancelled"
    /\ \E id \in CancelledIds : TaskOf(tasks, id).updatedAt < now

-----------------------------------------------------------------------------
\* C2: once a task is CANCELLED, no step of any handler changes any field of
\* it (status and updatedAt included), and it stays in the collection.
C2_CancelledIsTerminal ==
    [][\A i \in 1 .. Len(tasks) :
          tasks[i].status = "CANCELLED" =>
              /\ i <= Len(tasks')
              /\ tasks'[i] = tasks[i]]_vars

\* two CANCELLED tasks, the second cancelled at a later time than the first:
\* a confirmation ran on the collection after the first task became terminal
C2_Witness ==
    \E i, j \in 1 .. Len(tasks) :
        /\ tasks[i].status = "CANCELLED"
        /\ tasks[j].status = "CANCELLED"
        /\ tasks[i].updatedAt < tasks[j].updatedAt

-----------------------------------------------------------------------------
\* C3: a request on a non-terminal task to a target other than CANCELLED is
\* Committed: the task then has the target status and updatedAt is the clock's
\* reading, nothing else moves; and in every step a task's status and
\* updatedAt are written together, by a committing handler.
C3_CommitResult ==
    \A id \in NonTerminalIds, t \in TaskStatus \ {"CANCELLED"} :
        LET r == statusChange(tasks, confirmModal, now, id, t) IN
        /\ Outcome(r.path) = "Committed"
        /\ Len(r.tasks) = Len(tasks)
        /\ TaskOf(r.tasks, id).status = t
        /\ TaskOf(r.tasks, id).updatedAt = now
        /\ r.confirmModal = confirmModal

C3_WrittenTogether ==
    \A i \in 1 .. Len(tasks) :
        (tasks'[i].status # tasks[i].status
           \/ tasks'[i].updatedAt # tasks[i].updatedAt) =>
            /\ tasks'[i].updatedAt = now'
            /\ \/ last'.op = "handleStatusChange" /\ last'.path = "update"
               \/ last'.op \in ConfirmOps

\* C3: the request commits the target status with a refreshed updatedAt, and
\* no step writes one of the two fields without the other.
C3_NonTerminalCommit == []C3_CommitResult /\ [][C3_WrittenTogether]_vars

\* a regression has just been committed: a task is back in TODO with a
\* refreshed updatedAt
C3_Witness ==
    /\ last.op = "handleStatusChange"
    /\ last.path = "update"
    /\ \E i \in 1 .. Len(tasks) :
          /\ tasks[i].status = "TODO"
          /\ tasks[i].updatedAt = now
          /\ tasks[i].createdAt < tasks[i].updatedAt

-----------------------------------------------------------------------------
\* C4: a request to CANCELLED on a non-terminal task is PendingConfirmation:
\* it records a pending entry for that id with target CANCELLED and changes no
\* task; the confirm that follows it (at any later reading of the clock) sets
\* that task to CANCELLED with updatedAt refreshed, and clears the entry.
C4_CancelNeedsConfirmation ==
    \A id \in NonTerminalIds :
        LET r == statusChange(tasks, confirmModal, now, id, "CANCELLED") IN
        /\ Outcome(r.path) = "PendingConfirmation"
        /\ r.tasks = tasks
        /\ r.confirmModal =
              [isOpen |-> TRUE, taskId |-> id, newStatus |-> "CANCELLED"]
        /\ PendingIds(r.confirmModal) = {id}
        /\ \A time \in Later :
              LET c == confirmStatusChange(r.tasks, r.confirmModal, time) IN
              /\ TaskOf(c.tasks, id).status = "CANCELLED"
              /\ TaskOf(c.tasks, id).updatedAt = time
              /\ PendingIds(c.confirmModal) = {}
              /\ PendingIds(discardModal(c.confirmModal)) = {}

\* the modal's confirm button has just committed a pending cancellation, at a
\* later time than the task's creation
C4_Witness ==
    /\ last.op = "handleConfirm"
    /\ last.prev # EmptyId
    /\ TaskOf(tasks, last.prev).status = "CANCELLED"
    /\ TaskOf(tasks, last.prev).updatedAt = now
    /\ TaskOf(tasks, last.prev).createdAt < now
    /\ PendingIds(confirmModal) = {}

-----------------------------------------------------------------------------
\* C5: every step that takes a task into CANCELLED is a confirm step taken
\* while a pending confirmation with target CANCELLED names that very task;
\* no step of handleStatusChange does it, and no task is created CANCELLED.
C5_OnlyConfirmCancels ==
    [][/\ \A i \in 1 .. Len(tasks) :
            (tasks[i].status # "CANCELLED" /\ tasks'[i].status = "CANCELLED") =>
                /\ last'.op \in ConfirmOps
                /\ confirmModal.isOpen
                /\ confirmModal.taskId = tasks[i].id
                /\ confirmModal.newStatus = "CANCELLED"
       /\ \A i \in (Len(tasks) + 1) .. Len(tasks') :
            tasks'[i].status # "CANCELLED"]_vars

\* handleConfirmStatusChange has just cancelled the task that was pending
C5_Witness ==
    /\ last.op = "handleConfirmStatusChange"
    /\ last.prev \in CancelledIds
    /\ \E id \in NonTerminalIds : id # last.prev

-----------------------------------------------------------------------------
\* C6: when the status of the task that is pending is changed underneath the
\* request (a committed change to another status), the confirm that follows
\* mutates nothing: the task is not set to CANCELLED.
C6_StaleConfirmRejected ==
    \A id \in PendingIds(confirmModal) :
        \A t \in TaskStatus \ {"CANCELLED", TaskOf(tasks, id).status} :
            LET r == statusChange(tasks, confirmModal, now, id, t)
                c == confirmStatusChange(r.tasks, r.confirmModal, now)
            IN  /\ TaskOf(c.tasks, id).status # "CANCELLED"
                /\ c.tasks = r.tasks

-----------------------------------------------------------------------------
\* C7: a confirm made while nothing is pending changes no task and leaves
\* nothing pending.
C7_ConfirmWithoutPending ==
    PendingIds(confirmModal) = {} =>
        \A time \in Later :
            LET c == confirmStatusChange(tasks, confirmModal, time) IN
            /\ c.tasks = tasks
            /\ PendingIds(c.confirmModal) = {}
            /\ \A time2 \in time .. MaxTime :
                  confirmStatusChange(c.tasks, c.confirmModal, time2).tasks = tasks

\* handleConfirmStatusChange has just run with nothing pending, on a
\* collection whose tasks it would have been seen to touch
C7_Witness ==
    /\ last.op = "handleConfirmStatusChange"
    /\ last.prev = EmptyId
    /\ CancelledIds # {}
    /\ \E id \in NonTerminalIds : TaskOf(tasks, id).updatedAt < now

-----------------------------------------------------------------------------
\* C8: discarding never changes a task; it leaves nothing pending, it changes
\* nothing at all when nothing was pending, and discarding twice leaves the
\* state discarding once leaves.
C8_DiscardClears ==
    LET d == discardModal(confirmModal) IN
    /\ PendingIds(d) = {}
    /\ discardModal(d) = d
    /\ PendingIds(confirmModal) = {} => d = confirmModal

C8_DiscardStep ==
    last'.op = "onClose" =>
        /\ tasks' = tasks
        /\ PendingIds(confirmModal') = {}
        /\ PendingIds(confirmModal) = {} => confirmModal' = confirmModal

\* C8: discarding clears the pending confirmation idempotently and no discard
\* step changes a task.
C8_DiscardNeverMutates == []C8_DiscardClears /\ [][C8_DiscardStep]_vars

\* onClose has just run with nothing pending (the second discard in a row),
\* next to a task that kept its non-terminal status
C8_Witness ==
    /\ last.op = "onClose"
    /\ last.prev = EmptyId
    /\ \E id \in NonTerminalIds : TaskOf(tasks, id).status # "TODO"

-----------------------------------------------------------------------------
\* C9: no task id has more than one pending confirmation; a second request to
\* CANCELLED for the task that is already pending leaves the state the first
\* one left; and of the confirms that follow, the first commits CANCELLED and
\* the next one changes nothing.
C9_PendingReplacedIdempotently ==
    /\ \A id \in TaskIds : Cardinality(PendingIds(confirmModal) \cap {id}) <= 1
    /\ \A id \in NonTerminalIds :
        LET r1 == statusChange(tasks, confirmModal, now, id, "CANCELLED") IN
        \A t2 \in Later :
            LET r2 == statusChange(r1.tasks, r1.confirmModal, t2, id, "CANCELLED") IN
            /\ r2.tasks = r1.tasks
            /\ r2.confirmModal = r1.confirmModal
            /\ \A t3 \in t2 .. MaxTime :
                  LET c1 == confirmStatusChange(r2.tasks, r2.confirmModal, t3) IN
                  /\ TaskOf(c1.tasks, id).status = "CANCELLED"
                  /\ TaskOf(c1.tasks, id).updatedAt = t3
                  /\ \A t4 \in t3 .. MaxTime :
                        confirmStatusChange(c1.tasks, c1.confirmModal, t4).tasks
                            = c1.tasks

\* handleStatusChange has just been asked to cancel the task that was pending
\* already
C9_Witness ==
    /\ last.op = "handleStatusChange"
    /\ last.path = "confirm"
    /\ last.prev # EmptyId
    /\ last.prev = confirmModal.taskId
    /\ confirmModal.isOpen

-----------------------------------------------------------------------------
-----------------------------------------------------------------------------
\* C11: a request whose task id resolves to no task of the collection is
\* Rejected, whatever the target (CANCELLED included): the handler returns at
\* the lookup, no task changes and the confirmation modal stays as it was.
C11_UnknownIdRejected ==
    \A id \in TaskIds, t \in TaskStatus :
        ~Known(tasks, id) =>
            LET r == statusChange(tasks, confirmModal, now, id, t) IN
            /\ r.path = "noTask"
            /\ Outcome(r.path) = "Rejected"
            /\ r.tasks = tasks
            /\ r.confirmModal = confirmModal

\* handleStatusChange has just returned at the lookup while the collection
\* holds a task that is not cancelled
C11_Witness ==
    /\ last.op = "handleStatusChange"
    /\ last.path = "noTask"
    /\ NonTerminalIds # {}
    /\ \E id \in TaskIds \ {EmptyId} : ~Known(tasks, id)

-----------------------------------------------------------------------------
\* C12 as stated: every task is created with status TODO, and no step takes a
\* task whose status is not TODO to TODO.
C12_TodoInitialOnly ==
    [][/\ Len(tasks') > Len(tasks) => tasks'[Len(tasks')].status = "TODO"
       /\ \A i \in 1 .. Len(tasks) :
            tasks[i].status # "TODO" => tasks'[i].status # "TODO"]_vars

C12_BackToTodo ==
    \A id \in NonTerminalIds :
        LET r == statusChange(tasks, confirmModal, now, id, "TODO") IN
        /\ Outcome(r.path) = "Committed"
        /\ TaskOf(r.tasks, id).status = "TODO"

C12_TodoStep ==
    /\ Len(tasks') > Len(tasks) => tasks'[Len(tasks')].status = "TODO"
    /\ \A i \in 1 .. Len(tasks) :
        (tasks[i].status # "TODO" /\ tasks'[i].status = "TODO") =>
            /\ tasks[i].status \in {"IN_PROGRESS", "COMPLETED"}
            /\ last'.op = "handleStatusChange"
            /\ last'.path = "update"

\* C12 as amended: every task is created with status TODO; a request for TODO
\* on an IN_PROGRESS or COMPLETED task is Committed and takes the task back to
\* TODO; only such a request does, and never from CANCELLED.
C12_TodoInitialAndRegression == []C12_BackToTodo /\ [][C12_TodoStep]_vars

\* a task that has been worked on (IN_PROGRESS or COMPLETED) stands next to
\* a task that a committed request has just left in TODO
C12_Witness ==
    /\ last.op = "handleStatusChange"
    /\ last.path = "update"
    /\ \E a \in NonTerminalIds, b \in NonTerminalIds :
        /\ TaskOf(tasks, a).status \in {"IN_PROGRESS", "COMPLETED"}
        /\ TaskOf(tasks, b).status = "TODO"
        /\ TaskOf(tasks, b).updatedAt > TaskOf(tasks, b).createdAt

-----------------------------------------------------------------------------
(* Vocabulary of the summary claims.  handleAISummary returns nothing; the  *)
(* outcome of a summarize invocation is the branch it took and what it left *)
(* in aiSummary and summaryError.                                           *)

\* the positions of the tasks whose status is TODO or IN_PROGRESS
ActiveIdx(ts) ==
    {i \in 1 .. Len(ts) : ts[i].status \in {"TODO", "IN_PROGRESS"}}

\* the k-th smallest element of a set of numbers
Nth(S, k) == CHOOSE i \in S : Cardinality({j \in S : j < i}) = k - 1

\* the task the m-th record of a payload stands for
ActiveTask(ts, m) == ts[Nth(ActiveIdx(ts), m)]

PayloadFields == {"title", "description", "priority", "status", "dueDate"}

-----------------------------------------------------------------------------
\* C13: the payload sent to the summarization capability has one record for
\* each TODO or IN_PROGRESS task of the collection, in the collection's order,
\* and none for a COMPLETED or CANCELLED task; a request is sent exactly when
\* there is such a task.
C13_PayloadIsActiveSet ==
    /\ (summarize(tasks, inFlight).path = "posted") <=> (ActiveIdx(tasks) # {})
    /\ \A n \in 1 .. Len(inFlight) :
        LET body == inFlight[n] IN
        /\ Len(body) = Cardinality(ActiveIdx(tasks))
        /\ \A m \in 1 .. Len(body) :
            /\ body[m].status \in {"TODO", "IN_PROGRESS"}
            /\ body[m].status = ActiveTask(tasks, m).status
            /\ body[m].title = ActiveTask(tasks, m).title
            /\ body[m].priority = ActiveTask(tasks, m).priority

\* a request has just been sent for a collection that holds a task in
\* progress and a task that is completed or cancelled
C13_Witness ==
    /\ last.op = "handleAISummary"
    /\ last.path = "posted"
    /\ inFlight # <<>>
    /\ \E i \in 1 .. Len(tasks), j \in 1 .. Len(tasks) :
        /\ tasks[i].status = "IN_PROGRESS"
        /\ tasks[j].status \in {"COMPLETED", "CANCELLED"}

-----------------------------------------------------------------------------
\* C14: every record of a payload has exactly the properties title,
\* description, priority and status, and dueDate when the task has one; the
\* description is the task's, or the empty string when the task has none; id,
\* createdAt and updatedAt are in no record.
C14_PayloadProjection ==
    \A n \in 1 .. Len(inFlight) :
        \A m \in 1 .. Len(inFlight[n]) :
            LET rec == inFlight[n][m]
                task == ActiveTask(tasks, m)
            IN  /\ DOMAIN rec \subseteq PayloadFields
                /\ DOMAIN rec \cap {"id", "createdAt", "updatedAt"} = {}
                /\ PayloadFields \ {"dueDate"} \subseteq DOMAIN rec
                /\ ("dueDate" \in DOMAIN rec) <=> (task.dueDate # None)
                /\ task.dueDate # None => rec.dueDate = task.dueDate[1]
                /\ rec.description =
                      IF task.description = None THEN ""
                      ELSE task.description[1]

\* a payload in flight holds a record without dueDate for a task that has a
\* description, and a record with dueDate and the empty description
C14_Witness ==
    \E n \in 1 .. Len(inFlight) :
        \E a \in 1 .. Len(inFlight[n]), b \in 1 .. Len(inFlight[n]) :
            /\ "dueDate" \notin DOMAIN inFlight[n][a]
            /\ inFlight[n][a].description # ""
            /\ "dueDate" \in DOMAIN inFlight[n][b]
            /\ inFlight[n][b].description = ""

-----------------------------------------------------------------------------
\* the collections without a TODO or IN_PROGRESS task
EmptyCollections == {ts \in SummaryInitTasks : ActiveIdx(ts) = {}}

\* what the modal renders for a summary state
Shown(st) ==
    AISummaryModal(st.isAISummaryModalOpen, st.aiSummary,
                   st.isSummaryLoading, st.summaryError)

\* the response carries no text to show: no summary property, or the empty
\* string, or no data at all
Unusable(response) ==
    response.data = None \/ ~truthy(response.data[1].summary)

\* C15: for every collection without a TODO or IN_PROGRESS task, of any size,
\* and whatever else is going on, handleAISummary takes the Empty branch: it
\* sends no request, leaves the fixed notice in aiSummary, which the modal
\* shows, leaves summaryError null and the loading flag down.
C15_EmptyOutcome ==
    \A ts \in EmptyCollections :
        LET r == summarize(ts, inFlight) IN
        /\ r.path = "empty"
        /\ r.inFlight = inFlight
        /\ r.aiSummary = Some(EmptyNotice)
        /\ r.summaryError = None
        /\ ~r.isSummaryLoading
        /\ Shown(r).summary = Some(EmptyNotice)
        /\ Shown(r).error = None

\* handleAISummary has just taken the Empty branch on a collection of two or
\* more tasks, completed and cancelled
C15_Witness ==
    /\ last.op = "handleAISummary"
    /\ last.path = "empty"
    /\ Len(tasks) >= 2
    /\ \E i \in 1 .. Len(tasks), j \in 1 .. Len(tasks) :
        tasks[i].status = "COMPLETED" /\ tasks[j].status = "CANCELLED"
    /\ aiSummary = Some(EmptyNotice)
    /\ inFlight = <<>>

-----------------------------------------------------------------------------
\* C16: when a request in flight fails, whatever the error, the handler ends
\* in its catch and finally blocks: summaryError holds a non-empty message,
\* which the modal shows, the loading flag is down, aiSummary is untouched.
C16_FailureCaught ==
    \A i \in 1 .. Len(inFlight), error \in Errors :
        LET r == rejected(SummaryState, i, error) IN
        /\ r.summaryError # None
        /\ r.summaryError # Some("")
        /\ ~r.isSummaryLoading
        /\ r.aiSummary = aiSummary
        /\ r.isAISummaryModalOpen => Shown(r).error = r.summaryError

\* a request has just failed with an error that has no message
C16_Witness ==
    /\ last.op = "postRejected"
    /\ summaryError = Some(DefaultError)
    /\ ~isSummaryLoading
    /\ isAISummaryModalOpen

-----------------------------------------------------------------------------
\* C17: when a request in flight is answered with an unusable response (no
\* summary, or an empty one), the handler ends with an error in summaryError.
C17_UnusableResponseFails ==
    \A i \in 1 .. Len(inFlight), response \in Responses :
        Unusable(response) =>
            resolved(SummaryState, i, response).summaryError # None

-----------------------------------------------------------------------------
\* What the modal tells the user.  The box "No summary available / There are
\* no active tasks to summarize." and the summary box holding the notice of
\* lines 63-66 both say that there is nothing to summarize.
Tells(shown) ==
    IF ~shown.rendered THEN "nothing"
    ELSE IF shown.error # None THEN "error"
    ELSE IF shown.spinner THEN "loading"
    ELSE IF shown.noSummary \/ shown.summary = Some(EmptyNotice)
    THEN "nothing to summarize"
    ELSE "summary"

\* C18: an empty active set never sets summaryError, and what the modal tells
\* the user after a request failed, or was answered with nothing usable, is
\* not what it tells the user for an empty active set.
C18_FailureDistinctFromEmpty ==
    \A ts \in EmptyCollections :
        LET empty == summarize(ts, inFlight) IN
        /\ empty.summaryError = None
        /\ \A i \in 1 .. Len(inFlight) :
            /\ \A error \in Errors :
                Tells(Shown(rejected(SummaryState, i, error)))
                    # Tells(Shown(empty))
            /\ \A response \in Responses :
                Unusable(response) =>
                    Tells(Shown(resolved(SummaryState, i, response)))
                        # Tells(Shown(empty))

-----------------------------------------------------------------------------
\* C19: while a summarization request is in flight the button that starts
\* one is disabled, and at most one request is in flight.
C19_SingleCallInFlight ==
    /\ inFlight # <<>> => summariseDisabled(tasks)
    /\ Len(inFlight) <= 1

-----------------------------------------------------------------------------
C20_Step ==
    /\ Len(inFlight') > Len(inFlight) =>
        /\ last'.op = "handleAISummary"
        /\ Len(inFlight') = Len(inFlight) + 1
    /\ last'.op \in {"postResolved", "postRejected"} =>
        Len(inFlight') = Len(inFlight) - 1

\* C20: a request is sent only by a step of handleAISummary, one per
\* invocation at most; the step that handles an answer or a failure takes
\* the request out of flight and sends none.
C20_NoAutomaticRetry == [][C20_Step]_vars

\* a request has just failed and none is in flight
C20_Witness ==
    /\ last.op = "postRejected"
    /\ summaryError # None
    /\ inFlight = <<>>
    /\ ~isSummaryLoading

-----------------------------------------------------------------------------
C23_AfterCreation ==
    \A i \in 1 .. Len(tasks) :
        /\ tasks[i].createdAt <= tasks[i].updatedAt
        /\ tasks[i].updatedAt <= now

C23_UpdatedAtStep ==
    /\ now <= now'
    /\ \A i \in 1 .. Len(tasks) :
        /\ tasks[i].updatedAt <= tasks'[i].updatedAt
        /\ tasks'[i].createdAt = tasks[i].createdAt

\* C23: with a clock that never goes back, every task's updatedAt is at least
\* its createdAt, and no step lowers a task's updatedAt.
C23_UpdatedAtMonotone == []C23_AfterCreation /\ [][C23_UpdatedAtStep]_vars

\* a task created at a later reading of the clock has had its status changed,
\* next to a task whose updatedAt has moved past its createdAt
C23_Witness ==
    \E i \in 1 .. Len(tasks), j \in 1 .. Len(tasks) :
        /\ tasks[i].createdAt > 0
        /\ tasks[i].status # "TODO"
        /\ tasks[j].createdAt < tasks[j].updatedAt

-----------------------------------------------------------------------------
\* the collection ts1 is ts0 but for the status and updatedAt of the task id
Framed(ts1, ts0, id) ==
    /\ Len(ts1) = Len(ts0)
    /\ \A i \in 1 .. Len(ts0) :
        IF ts0[i].id = id
        THEN /\ DOMAIN ts1[i] = DOMAIN ts0[i]
             /\ \A f \in DOMAIN ts0[i] \ {"status", "updatedAt"} :
                    ts1[i][f] = ts0[i][f]
        ELSE ts1[i] = ts0[i]

C24_CommitFrame ==
    /\ \A id \in NonTerminalIds, t \in TaskStatus \ {"CANCELLED"} :
        Framed(statusChange(tasks, confirmModal, now, id, t).tasks, tasks, id)
    /\ \A id \in PendingIds(confirmModal) :
        Framed(confirmStatusChange(tasks, confirmModal, now).tasks, tasks, id)

C24_CommitStep ==
    (last'.op = "handleStatusChange" \/ last'.op \in ConfirmOps) =>
        \E id \in TaskIds : Framed(tasks', tasks, id)

\* C24: a committed status change, direct or confirmed, writes the status and
\* updatedAt of the one task and nothing else: the task's other fields, the
\* other tasks and the length of the collection stay as they were.
C24_PlainFieldUpdate == []C24_CommitFrame /\ [][C24_CommitStep]_vars

\* a confirmed cancellation has just been committed on one of two tasks, later
\* than that task's creation
C24_Witness ==
    /\ last.op \in ConfirmOps
    /\ Len(tasks) >= 2
    /\ \E id \in CancelledIds :
        /\ TaskOf(tasks, id).updatedAt = now
        /\ TaskOf(tasks, id).createdAt < now
    /\ NonTerminalIds # {}

-----------------------------------------------------------------------------
\* C26: whenever the confirmation modal is open, its taskId is the id of a
\* task of the collection that is not CANCELLED and its newStatus is CANCELLED.
C26_OpenModalIsValid ==
    confirmModal.isOpen =>
        /\ confirmModal.taskId \in NonTerminalIds
        /\ confirmModal.newStatus = "CANCELLED"

\* the modal is open for one task while another has been cancelled by an
\* earlier confirmation
C26_Witness ==
    /\ confirmModal.isOpen
    /\ CancelledIds # {}
    /\ confirmModal.taskId \notin CancelledIds

-----------------------------------------------------------------------------
\* C21: the answer to, or the failure of, a request sent before the modal was
\* last closed changes nothing of what the modal shows.
C21_LateResultDiscarded ==
    \A i \in 1 .. staleCalls :
        /\ \A response \in Responses :
            Shown(resolved(SummaryState, i, response)) = Shown(SummaryState)
        /\ \A error \in Errors :
            Shown(rejected(SummaryState, i, error)) = Shown(SummaryState)

-----------------------------------------------------------------------------
\* C22: no step of the summary (handleAISummary on any branch, the answer to
\* a request, its failure, closing the modal) changes the task collection or
\* any field of a task.
C22_SummaryLeavesTasks == [][tasks' = tasks]_vars

\* a request has just failed for a collection of two or more tasks, not all
\* of them active
C22_Witness ==
    /\ last.op = "postRejected"
    /\ Len(tasks) >= 2
    /\ ActiveIdx(tasks) # {}
    /\ ActiveIdx(tasks) # 1 .. Len(tasks)
    /\ summaryError # None

-----------------------------------------------------------------------------
\* C27: the loading flag is up exactly while a request is in flight, and when
\* none is in flight aiSummary and summaryError are not both non-empty.
C27_LoadingIffOutstanding ==
    /\ isSummaryLoading <=> (inFlight # <<>>)
    /\ inFlight = <<>> => ~(truthy(aiSummary) /\ truthy(summaryError))

-----------------------------------------------------------------------------
\* C28: when every request is answered or fails in the end, a raised loading
\* flag is lowered in the end, and the flag is down whenever no request is in
\* flight, so an open modal can then be closed.
C28_LoadingEventuallyCleared ==
    /\ isSummaryLoading ~> ~isSummaryLoading
    /\ [](inFlight = <<>> => ~isSummaryLoading)
    /\ [](isAISummaryModalOpen /\ inFlight = <<>> => ENABLED closeAISummaryModal)

\* the last request in flight has just been answered and the modal can be
\* closed
C28_Witness ==
    /\ last.op = "postResolved"
    /\ last.path = "success"
    /\ inFlight = <<>>
    /\ ~isSummaryLoading
    /\ isAISummaryModalOpen

-----------------------------------------------------------------------------
\* C25: a request sent through taskApi while localStorage holds the token
\* that login or signup stored carries that token as its Bearer Authorization
\* header.
C25_TaskRequestsCarryToken ==
    (last.op = "taskApiRequest" /\ truthy(localStorage.access_token)) =>
        taskRequest[1].Authorization =
            Some(Bearer(localStorage.access_token[1]))

-----------------------------------------------------------------------------
AuthConsistent(state) ==
    /\ state.isAuthenticated <=> state.user # None
    /\ state.isAuthenticated <=> state.token # None

\* C29: in every state of the reducer, isAuthenticated is true exactly when
\* user is non-null and exactly when token is non-null, and every action of
\* the declared types keeps it so.
C29_AuthenticatedIffUserAndToken ==
    /\ AuthConsistent(authState)
    /\ \A action \in AuthActions :
        AuthConsistent(authReducer(authState, action))

\* a signed-in user has started another authentication request, which is
\* still in flight
C29_Witness ==
    /\ authState.isAuthenticated
    /\ authState.isLoading
    /\ authCalls # <<>>

-----------------------------------------------------------------------------
\* C30: once a signup, login or refreshUser request has completed and none is
\* left in flight, isLoading is false.
C30_LoadingCleared ==
    (last.op \in {"authResolved", "authRejected"} /\ authCalls = <<>>) =>
        ~authState.isLoading

====
